---- MODULE Spec2Model ----
(***************************************************************************)
(* Conference booking system (Motorq-Conference-Booking.cpp): conferences  *)
(* with slot counters, users with booking ledgers, the booking table and   *)
(* the per-conference waitlist queues, driven by the operations of         *)
(* ConferenceBookingSystem.                                                *)
(*                                                                         *)
(* time(nullptr) is the variable now, in seconds from the start of the     *)
(* run; the clock is observed at whole multiples of the grace window.      *)
(***************************************************************************)
EXTENDS Integers, Sequences, FiniteSets, TLC

\* ------------------------------------------------------------------ bounds
MaxTicks == 2
MaxBookings == 2
MaxReuses == 1
MaxCalls == 2
MaxHour == 4

\* ------------------------------------------------------- program constants
GraceSeconds == 3600
MaxTopics == 10
MaxInterestedTopics == 50
MaxDurationHours == 12
TestSlots == 2

\* ------------------------------------------------------------------ inputs
\* addConference calls <<name, topic count, start, end, slots>>: A and B overlap,
\* the others are refused (too many topics, no slot, too long, start >= end)
ConfInputsA ==
    { <<"A", 2, 2 * GraceSeconds, 4 * GraceSeconds, 1>>,
      <<"A", 11, 2 * GraceSeconds, 4 * GraceSeconds, 1>>,
      <<"A", 2, 2 * GraceSeconds, 4 * GraceSeconds, 0>> }
ConfInputsB ==
    { <<"B", 2, 3 * GraceSeconds, 5 * GraceSeconds, 1>>,
      <<"B", 2, 3 * GraceSeconds, 16 * GraceSeconds, 1>>,
      <<"B", 2, 3 * GraceSeconds, 3 * GraceSeconds, 1>> }
ConfNames == {"A", "B"}
UserTopicCounts == {2, 51}
NoBooking == <<"none", "none", 0>>

VARIABLES
    now,            \* time(nullptr)
    conferences,    \* name -> Conference
    users,          \* userId -> bookingStatuses (bookingId -> status)
    bookings,       \* bookingId -> Booking
    waitlists,      \* conferenceName -> queue of bookingIds
    notified,       \* history: ids whose deadline setWaitlistConfirmationDeadline set
    created,        \* history: how many bookings bookConference has added to the table
    requeued,       \* history: some confirmWaitlistedBooking call took the deadline-expired path
    idReuses,       \* history: how many bookConference calls built an id already in bookings
    last,           \* what the last call handed its caller: a value or an exception
    pc,             \* thread -> where it stands in the call it is making
    local,          \* thread -> the locals of that call
    mutex,          \* conference_mutex, booking_mutex, waitlist_mutex: the threads holding each
    calls           \* history: thread -> how many calls it has made

tables == <<conferences, users, bookings, waitlists>>
threadVars == <<pc, local, mutex, calls>>
vars == <<now, conferences, users, bookings, waitlists, notified, created, requeued, idReuses, last,
          pc, local, mutex, calls>>

\* --------------------------------------------------------------- Conference
NewConference(start, end, slots) ==
    [startTime |-> start, endTime |-> end, totalSlots |-> slots, availableSlots |-> slots]

hasStarted(conf) == now >= conf.startTime

hasSlotAvailable_Always(conf) == TRUE

hasSlotAvailable(conf) == conf.availableSlots > 0

isTimeOverlapping_Closed(conf, start, end) ==
    ~(end < conf.startTime \/ start > conf.endTime)

isTimeOverlapping(conf, start, end) ==
    ~(end <= conf.startTime \/ start >= conf.endTime)

canDecreaseAvailableSlots_OffByOne(conf) == conf.availableSlots >= 0

canDecreaseAvailableSlots(conf) == conf.availableSlots > 0

decreaseAvailableSlots(conf) ==
    IF canDecreaseAvailableSlots(conf)
    THEN [conf EXCEPT !.availableSlots = @ - 1]
    ELSE conf

increaseAvailableSlots(conf) ==
    IF conf.availableSlots < conf.totalSlots
    THEN [conf EXCEPT !.availableSlots = @ + 1]
    ELSE conf

\* --------------------------------------------------------------------- User
addBooking(ledger, bookingId, status) ==
    [id \in DOMAIN ledger \cup {bookingId} |->
        IF id = bookingId THEN status ELSE ledger[id]]

removeBooking(ledger, bookingId) ==
    [id \in DOMAIN ledger \ {bookingId} |-> ledger[id]]

getActiveBookings(ledger) == {id \in DOMAIN ledger : ledger[id] # "CANCELED"}

\* ------------------------------------------------------------------ Booking
\* Booking(userId, confName) leaves confirmationDeadline uninitialised: what a
\* later read yields is any time_t, here one long past or one far ahead
IndeterminateDeadlines == {0 - 1, (MaxTicks + 2) * GraceSeconds}

\* the deadline of a booking created CONFIRMED is written but never read: the
\* reads (lines 577, 629) are of WAITLISTED bookings, and no booking returns to
\* WAITLISTED; one value stands for it
UnreadDeadline == 0 - 1

BookingId(userId, confName) == <<userId, confName, now>>

NewBooking(userId, confName, status, garbage) ==
    [userId |-> userId, conferenceName |-> confName, status |-> status,
     confirmationDeadline |-> garbage]

emplace_Overwrite(table, bookingId, booking) ==
    [id \in DOMAIN table \cup {bookingId} |->
        IF id = bookingId THEN booking ELSE table[id]]

\* bookings.emplace(bookingId, newBooking): no effect when the key is present
emplace(table, bookingId, booking) ==
    IF bookingId \in DOMAIN table
    THEN table
    ELSE [id \in DOMAIN table \cup {bookingId} |->
            IF id = bookingId THEN booking ELSE table[id]]

\* ------------------------------------------------------------------ helpers
RemoveFromQueue_PopsFront(queue, bookingId) ==
    IF queue = <<>> THEN queue ELSE Tail(queue)

\* the queue rebuilt without bookingId, the others in their order
RemoveFromQueue(queue, bookingId) == SelectSeq(queue, LAMBDA x : x # bookingId)

hasConflictingBooking_Placeholder(userId, newConference) == FALSE

hasConflictingBooking(userId, newConference) ==
    \E bookingId \in getActiveBookings(users[userId]) :
        /\ bookings[bookingId].status = "CONFIRMED"
        /\ isTimeOverlapping(conferences[bookings[bookingId].conferenceName],
                             newConference.startTime, newConference.endTime)

conferencesToUpdate_All(confs, bookedName) == DOMAIN confs \ {bookedName}

\* the conferences whose waitlists removeFromOverlappingWaitlists rebuilds
conferencesToUpdate(confs, bookedName) ==
    {c \in DOMAIN confs :
        /\ c # bookedName
        /\ isTimeOverlapping(confs[c], confs[bookedName].startTime, confs[bookedName].endTime)}

\* removeFromOverlappingWaitlists: the waitlists afterwards
OverlapWaitlists(confs, bk, wl, userId, bookedName) ==
    [c \in DOMAIN wl |->
        IF c \in conferencesToUpdate(confs, bookedName)
        THEN SelectSeq(wl[c], LAMBDA x : bk[x].userId # userId)
        ELSE wl[c]]

\* removeFromOverlappingWaitlists: the booking table afterwards
OverlapBookings(confs, bk, wl, userId, bookedName) ==
    [id \in DOMAIN bk |->
        IF \E c \in conferencesToUpdate(confs, bookedName) :
              \E i \in 1..Len(wl[c]) : wl[c][i] = id /\ bk[id].userId = userId
        THEN [bk[id] EXCEPT !.status = "CANCELED"]
        ELSE bk[id]]

CancelAllBookings_HeadOnly(bk, queue) ==
    IF queue = <<>>
    THEN bk
    ELSE [bk EXCEPT ![Head(queue)].status = "CANCELED"]

\* cancelAllWaitlistedBookings: the booking table afterwards
CancelAllBookings(bk, queue) ==
    [id \in DOMAIN bk |->
        IF \E i \in 1..Len(queue) : queue[i] = id
        THEN [bk[id] EXCEPT !.status = "CANCELED"]
        ELSE bk[id]]

ProcessWaitlistBookings_Promotes(bk, queue) ==
    IF queue = <<>>
    THEN bk
    ELSE [bk EXCEPT ![Head(queue)].confirmationDeadline = now + GraceSeconds,
                    ![Head(queue)].status = "CONFIRMED"]

ProcessWaitlistBookings_NoGrace(bk, queue) ==
    IF queue = <<>>
    THEN bk
    ELSE [bk EXCEPT ![Head(queue)].confirmationDeadline = now]

\* processWaitlist: the booking table afterwards
ProcessWaitlistBookings(bk, queue) ==
    IF queue = <<>>
    THEN bk
    ELSE [bk EXCEPT ![Head(queue)].confirmationDeadline = now + GraceSeconds]

ProcessWaitlistNotified(queue) ==
    IF queue = <<>> THEN notified ELSE notified \cup {Head(queue)}

\* ------------------------------------------------------------------ outcome
\* every exception of the program is a runtime_error; its message is not kept
Returned(value) == [thrown |-> FALSE, value |-> value, id |-> NoBooking]
Thrown(what) == [thrown |-> TRUE, value |-> "runtime_error", id |-> NoBooking]

Throw(what) ==
    /\ last' = Thrown(what)
    /\ UNCHANGED <<now, conferences, users, bookings, waitlists, notified, created, requeued, idReuses, threadVars>>

\* no thread besides the caller: the calls of Spec and SpecQueue run one after another
NoThreads ==
    /\ pc = <<>>
    /\ local = <<>>
    /\ mutex = [conference_mutex |-> {}, booking_mutex |-> {}, waitlist_mutex |-> {}]
    /\ calls = <<>>

\* --------------------------------------------------------------------- Init
Init ==
    /\ now = 0
    /\ conferences = <<>>
    /\ users = <<>>
    /\ bookings = <<>>
    /\ waitlists = [c \in ConfNames |-> <<>>]
    /\ notified = {}
    /\ created = 0
    /\ requeued = FALSE
    /\ idReuses = 0
    /\ last = Returned("void")
    /\ NoThreads

\* ------------------------------------------------------------------ actions
addConference(name, nTopics, start, end, slots) ==
    IF name \in DOMAIN conferences
    THEN Throw("Conference with this name already exists")
    ELSE IF nTopics > MaxTopics
    THEN Throw("Maximum 10 topics allowed")
    ELSE IF slots <= 0
    THEN Throw("Slots must be greater than 0")
    ELSE IF end - start > MaxDurationHours * 3600
    THEN Throw("Conference duration cannot exceed 12 hours")
    ELSE IF start >= end
    THEN Throw("Start time must be before end time")
    ELSE /\ conferences' = [c \in DOMAIN conferences \cup {name} |->
                              IF c = name THEN NewConference(start, end, slots)
                              ELSE conferences[c]]
         /\ last' = Returned("void")
         /\ UNCHANGED <<now, users, bookings, waitlists, notified, created, requeued, idReuses, threadVars>>

addUser(userId, nTopics) ==
    IF userId \in DOMAIN users
    THEN Throw("User already exists")
    ELSE IF nTopics > MaxInterestedTopics
    THEN Throw("Maximum 50 interested topics allowed")
    ELSE /\ users' = [u \in DOMAIN users \cup {userId} |->
                        IF u = userId THEN <<>> ELSE users[u]]
         /\ last' = Returned("void")
         /\ UNCHANGED <<now, conferences, bookings, waitlists, notified, created, requeued, idReuses, threadVars>>

existingBooking_ConfirmedOnly(userId, conferenceName) ==
    \E id \in DOMAIN bookings :
        /\ bookings[id].userId = userId
        /\ bookings[id].conferenceName = conferenceName
        /\ bookings[id].status = "CONFIRMED"

\* bookConference, lines 516-523: the user has a booking of this conference
\* that is not CANCELED
existingBooking(userId, conferenceName) ==
    \E id \in DOMAIN bookings :
        /\ bookings[id].userId = userId
        /\ bookings[id].conferenceName = conferenceName
        /\ bookings[id].status # "CANCELED"

bookConference(userId, conferenceName) ==
    IF userId \notin DOMAIN users
    THEN Throw("User not found")
    ELSE IF conferenceName \notin DOMAIN conferences
    THEN Throw("Conference not found")
    ELSE IF hasStarted(conferences[conferenceName])
    THEN Throw("Cannot book conference that has already started")
    ELSE IF existingBooking(userId, conferenceName)
    THEN Throw("User already has an active booking for this conference")
    ELSE IF hasConflictingBooking(userId, conferences[conferenceName])
    THEN Throw("User has a conflicting booking")
    ELSE
      \E garbage \in IF canDecreaseAvailableSlots(conferences[conferenceName])
                      THEN {UnreadDeadline} ELSE IndeterminateDeadlines :
        LET bookingId == BookingId(userId, conferenceName)
            gotSlot == canDecreaseAvailableSlots(conferences[conferenceName])
            status == IF gotSlot THEN "CONFIRMED" ELSE "WAITLISTED"
            confs1 == [conferences EXCEPT ![conferenceName] = decreaseAvailableSlots(@)]
            bk1 == IF gotSlot
                   THEN OverlapBookings(confs1, bookings, waitlists, userId, conferenceName)
                   ELSE bookings
            wl1 == IF gotSlot
                   THEN OverlapWaitlists(confs1, bookings, waitlists, userId, conferenceName)
                   ELSE [waitlists EXCEPT ![conferenceName] = Append(@, bookingId)]
        IN  /\ IF bookingId \in DOMAIN bookings
               THEN idReuses < MaxReuses
               ELSE created < MaxBookings
            /\ gotSlot \/ Len(waitlists[conferenceName]) < MaxBookings
            /\ conferences' = confs1
            /\ waitlists' = wl1
            /\ bookings' = emplace(bk1, bookingId,
                                   NewBooking(userId, conferenceName, status, garbage))
            /\ users' = [users EXCEPT ![userId] = addBooking(@, bookingId, status)]
            /\ created' = IF bookingId \in DOMAIN bookings THEN created ELSE created + 1
            /\ idReuses' = IF bookingId \in DOMAIN bookings THEN idReuses + 1 ELSE idReuses
            /\ last' = [thrown |-> FALSE, value |-> "id", id |-> bookingId]
            /\ UNCHANGED <<now, notified, requeued, threadVars>>

alreadyCanceled_Never(booking) == FALSE

\* cancelBooking, lines 426-428
alreadyCanceled(booking) == booking.status = "CANCELED"

cancelBooking(bookingId) ==
    IF bookingId \notin DOMAIN bookings
    THEN Throw("Booking not found")
    ELSE IF alreadyCanceled(bookings[bookingId])
    THEN Throw("Booking is already canceled")
    ELSE IF hasStarted(conferences[bookings[bookingId].conferenceName])
    THEN Throw("Cannot cancel booking after conference has started")
    ELSE
        LET booking == bookings[bookingId]
            confName == booking.conferenceName
            wasConfirmed == booking.status = "CONFIRMED"
            bk1 == IF wasConfirmed
                   THEN ProcessWaitlistBookings(bookings, waitlists[confName])
                   ELSE bookings
        IN  /\ conferences' = IF wasConfirmed
                              THEN [conferences EXCEPT ![confName] = increaseAvailableSlots(@)]
                              ELSE conferences
            /\ notified' = IF wasConfirmed
                           THEN ProcessWaitlistNotified(waitlists[confName])
                           ELSE notified
            /\ waitlists' = IF wasConfirmed
                            THEN waitlists
                            ELSE [waitlists EXCEPT ![confName] = RemoveFromQueue(@, bookingId)]
            /\ bookings' = [bk1 EXCEPT ![bookingId].status = "CANCELED"]
            /\ users' = [users EXCEPT ![booking.userId] = removeBooking(@, bookingId)]
            /\ last' = Returned("true")
            /\ UNCHANGED <<now, created, requeued, idReuses, threadVars>>

getBookingStatus(bookingId) ==
    IF bookingId \notin DOMAIN bookings
    THEN Throw("Booking not found")
    ELSE /\ last' = Returned(bookings[bookingId].status)
         /\ UNCHANGED <<now, conferences, users, bookings, waitlists, notified, created, requeued, idReuses, threadVars>>

\* the deadline test of confirmWaitlistedBooking
deadlinePassed(booking) == now > booking.confirmationDeadline

MoveToEnd_KeepsPlace(queue, bookingId) == queue

\* the deadline-expired path: bookingId moved to the end of the queue if it was in it
MoveToEnd(queue, bookingId) ==
    IF \E i \in 1..Len(queue) : queue[i] = bookingId
    THEN Append(RemoveFromQueue(queue, bookingId), bookingId)
    ELSE queue

confirmWaitlistedBooking(bookingId) ==
    IF bookingId \notin DOMAIN bookings
    THEN Throw("Booking not found")
    ELSE IF bookings[bookingId].status # "WAITLISTED"
    THEN Throw("Booking is not in waitlisted state")
    ELSE
        LET booking == bookings[bookingId]
            confName == booking.conferenceName
            conference == conferences[confName]
        IN
        IF hasStarted(conference)
        THEN /\ bookings' = CancelAllBookings(bookings, waitlists[confName])
             /\ waitlists' = [waitlists EXCEPT ![confName] = <<>>]
             /\ last' = Thrown("Cannot confirm booking after conference has started")
             /\ UNCHANGED <<now, conferences, users, notified, created, requeued, idReuses, threadVars>>
        ELSE IF deadlinePassed(booking)
        THEN LET queue == MoveToEnd(waitlists[confName], bookingId) IN
             /\ waitlists' = [waitlists EXCEPT ![confName] = queue]
             /\ bookings' = IF hasSlotAvailable(conference)
                            THEN ProcessWaitlistBookings(bookings, queue)
                            ELSE bookings
             /\ notified' = IF hasSlotAvailable(conference)
                            THEN ProcessWaitlistNotified(queue)
                            ELSE notified
             /\ requeued' = TRUE
             /\ last' = Returned("false")
             /\ UNCHANGED <<now, conferences, users, created, idReuses, threadVars>>
        ELSE IF hasConflictingBooking(booking.userId, conference)
        THEN Throw("User now has a conflicting booking")
        ELSE IF ~canDecreaseAvailableSlots(conference)
        THEN Throw("No slots available")
        ELSE LET confs1 == [conferences EXCEPT ![confName] = decreaseAvailableSlots(@)]
                 wl1 == [waitlists EXCEPT ![confName] = RemoveFromQueue(@, bookingId)]
                 bk1 == [bookings EXCEPT ![bookingId].status = "CONFIRMED"]
             IN /\ conferences' = confs1
                /\ waitlists' = OverlapWaitlists(confs1, bk1, wl1, booking.userId, confName)
                /\ bookings' = OverlapBookings(confs1, bk1, wl1, booking.userId, confName)
                /\ last' = Returned("true")
                /\ UNCHANGED <<now, users, notified, created, requeued, idReuses, threadVars>>

Tick ==
    /\ now < MaxTicks * GraceSeconds
    /\ now' = now + GraceSeconds
    /\ last' = Returned("void")
    /\ UNCHANGED <<conferences, users, bookings, waitlists, notified, created, requeued, idReuses, threadVars>>

\* the ids a caller passes: every id handed out so far, and one never handed out
KnownIds == DOMAIN bookings \cup {NoBooking}

Registration(U, CI) ==
    \/ \E ci \in CI : addConference(ci[1], ci[2], ci[3], ci[4], ci[5])
    \/ \E u \in U, n \in UserTopicCounts : addUser(u, n)

Booking(U, C) ==
    \/ \E u \in U, c \in C : bookConference(u, c)
    \/ \E id \in KnownIds : cancelBooking(id)
    \/ \E id \in KnownIds : confirmWaitlistedBooking(id)

Query == \E id \in KnownIds : getBookingStatus(id)

\* two users and two overlapping conferences, from the empty system
Next ==
    \/ Registration({"u1", "u2"}, ConfInputsA \cup ConfInputsB)
    \/ Booking({"u1", "u2"}, {"A", "B"})
    \/ Query
    \/ Tick
Spec == Init /\ [][Next]_vars

\* three users queueing for one conference, from the state that addConference(B),
\* addUser of the three and bookConference(u1, B) at time 0 leave
InitQueue ==
    /\ now = 0
    /\ conferences = [c \in {"B"} |->
                        decreaseAvailableSlots(NewConference(3 * GraceSeconds, 5 * GraceSeconds, 1))]
    /\ users = [u \in {"u1", "u2", "u3"} |->
                  IF u = "u1" THEN addBooking(<<>>, <<"u1", "B", 0>>, "CONFIRMED") ELSE <<>>]
    /\ bookings = emplace(<<>>, <<"u1", "B", 0>>, NewBooking("u1", "B", "CONFIRMED", UnreadDeadline))
    /\ waitlists = [c \in ConfNames |-> <<>>]
    /\ notified = {}
    /\ created = 0
    /\ requeued = FALSE
    /\ idReuses = 0
    /\ last = [thrown |-> FALSE, value |-> "id", id |-> <<"u1", "B", 0>>]
    /\ NoThreads
NextQueue ==
    \/ Booking({"u2", "u3"}, {"B"})
    \/ Tick
SpecQueue == InitQueue /\ [][NextQueue]_vars

\* ----------------------------------------------------------------- threads
\* Calls made by several threads at once. A step is a stretch of a call that
\* the model lets no other thread interrupt: the program allows more
\* interleavings than these, never fewer. The outcome of a call is kept in the
\* caller's locals; last is the sequential caller's and stays as it is.
Idle ==
    [op |-> "none", userId |-> "none", conferenceName |-> "none",
     bookingId |-> NoBooking, seen |-> 0, status |-> "none", result |-> "none"]

history == <<notified, created, requeued, idReuses>>

Release_KeepsWaitlist(t) ==
    [m \in DOMAIN mutex |-> IF m = "waitlist_mutex" THEN mutex[m] ELSE mutex[m] \ {t}]

\* the lock_guards of t destroyed
Release(t) == [m \in DOMAIN mutex |-> mutex[m] \ {t}]

\* the call of t is over, by return or by throw
ThreadReturn(t, result, id) ==
    /\ pc' = [pc EXCEPT ![t] = "idle"]
    /\ local' = [local EXCEPT ![t] = [Idle EXCEPT !.result = result, !.bookingId = id]]
    /\ mutex' = Release(t)

ThreadThrow(t) == ThreadReturn(t, "runtime_error", NoBooking)

\* bookConference, lines 507-529: the checks, under no lock
bookCheck(t, userId, conferenceName, limit) ==
    /\ pc[t] = "idle"
    /\ calls[t] < limit
    /\ calls' = [calls EXCEPT ![t] = @ + 1]
    /\ IF \/ userId \notin DOMAIN users
          \/ conferenceName \notin DOMAIN conferences
       THEN ThreadThrow(t)
       ELSE IF \/ hasStarted(conferences[conferenceName])
               \/ existingBooking(userId, conferenceName)
               \/ hasConflictingBooking(userId, conferences[conferenceName])
       THEN ThreadThrow(t)
       ELSE /\ pc' = [pc EXCEPT ![t] = "book_slot"]
            /\ local' = [local EXCEPT ![t] =
                            [Idle EXCEPT !.op = "bookConference", !.userId = userId,
                                         !.conferenceName = conferenceName,
                                         !.bookingId = BookingId(userId, conferenceName)]]
            /\ UNCHANGED mutex
    /\ UNCHANGED <<now, tables, history, last>>

\* decreaseAvailableSlots, line 66: the test of the counter
bookSlot(t) ==
    /\ pc[t] = "book_slot"
    /\ LET conf == conferences[local[t].conferenceName] IN
       /\ pc' = [pc EXCEPT ![t] = IF canDecreaseAvailableSlots(conf)
                                  THEN "book_decrement" ELSE "book_enqueue"]
       /\ local' = [local EXCEPT ![t].seen = conf.availableSlots,
                                 ![t].status = IF canDecreaseAvailableSlots(conf)
                                               THEN "CONFIRMED" ELSE "WAITLISTED"]
    /\ UNCHANGED <<now, tables, history, last, mutex, calls>>

\* decreaseAvailableSlots, line 67, and removeFromOverlappingWaitlists: the
\* decrement races with the other threads' (no lock is held), so it stores
\* one less than the counter is now or one less than this thread saw it
bookDecrement(t) ==
    /\ pc[t] = "book_decrement"
    /\ \E slots \in {conferences[local[t].conferenceName].availableSlots - 1,
                     local[t].seen - 1} :
         LET confName == local[t].conferenceName
             confs1 == [conferences EXCEPT ![confName].availableSlots = slots]
         IN  /\ conferences' = confs1
             /\ bookings' = OverlapBookings(confs1, bookings, waitlists, local[t].userId, confName)
             /\ waitlists' = OverlapWaitlists(confs1, bookings, waitlists, local[t].userId, confName)
    /\ pc' = [pc EXCEPT ![t] = "book_emplace"]
    /\ UNCHANGED <<now, users, history, last, local, mutex, calls>>

\* bookConference, line 544: the id pushed on the conference's queue
bookEnqueue(t) ==
    /\ pc[t] = "book_enqueue"
    /\ waitlists' = [waitlists EXCEPT ![local[t].conferenceName] = Append(@, local[t].bookingId)]
    /\ pc' = [pc EXCEPT ![t] = "book_emplace"]
    /\ UNCHANGED <<now, conferences, users, bookings, history, last, local, mutex, calls>>

\* bookConference, lines 547-559: the booking entered in the table and the ledger
bookEmplace(t) ==
    /\ pc[t] = "book_emplace"
    /\ \E garbage \in IF local[t].status = "CONFIRMED"
                      THEN {UnreadDeadline} ELSE IndeterminateDeadlines :
         bookings' = emplace(bookings, local[t].bookingId,
                             NewBooking(local[t].userId, local[t].conferenceName,
                                        local[t].status, garbage))
    /\ users' = [users EXCEPT ![local[t].userId] =
                    addBooking(@, local[t].bookingId, local[t].status)]
    /\ created' = IF local[t].bookingId \in DOMAIN bookings THEN created ELSE created + 1
    /\ idReuses' = IF local[t].bookingId \in DOMAIN bookings THEN idReuses + 1 ELSE idReuses
    /\ ThreadReturn(t, "id", local[t].bookingId)
    /\ UNCHANGED <<now, conferences, waitlists, notified, requeued, last, calls>>

\* getBookingStatus, under no lock: the status read and, for a WAITLISTED
\* booking, the slot counter of its conference read (lines 572-577)
statusRead(t, bookingId, limit) ==
    /\ pc[t] = "idle"
    /\ calls[t] < limit
    /\ calls' = [calls EXCEPT ![t] = @ + 1]
    /\ IF bookingId \notin DOMAIN bookings
       THEN ThreadThrow(t)
       ELSE /\ pc' = [pc EXCEPT ![t] = "idle"]
            /\ local' = [local EXCEPT ![t] =
                  [Idle EXCEPT
                     !.result = bookings[bookingId].status,
                     !.bookingId = bookingId,
                     !.seen = IF bookings[bookingId].status = "WAITLISTED"
                              THEN conferences[bookings[bookingId].conferenceName].availableSlots
                              ELSE 0]]
            /\ mutex' = Release(t)
    /\ UNCHANGED <<now, tables, history, last>>

\* cancelBooking and confirmWaitlistedBooking called: the three lock_guards next
lockedCall(t, op, bookingId, limit) ==
    /\ pc[t] = "idle"
    /\ calls[t] < limit
    /\ calls' = [calls EXCEPT ![t] = @ + 1]
    /\ pc' = [pc EXCEPT ![t] = "lock_conference"]
    /\ local' = [local EXCEPT ![t] = [Idle EXCEPT !.op = op, !.bookingId = bookingId]]
    /\ UNCHANGED <<now, tables, history, last, mutex>>

lockConference(t) ==
    /\ pc[t] = "lock_conference"
    /\ mutex.conference_mutex = {}
    /\ mutex' = [mutex EXCEPT !.conference_mutex = {t}]
    /\ pc' = [pc EXCEPT ![t] = "lock_booking"]
    /\ UNCHANGED <<now, tables, history, last, local, calls>>

lockBooking(t) ==
    /\ pc[t] = "lock_booking"
    /\ mutex.booking_mutex = {}
    /\ mutex' = [mutex EXCEPT !.booking_mutex = {t}]
    /\ pc' = [pc EXCEPT ![t] = "lock_waitlist"]
    /\ UNCHANGED <<now, tables, history, last, local, calls>>

lockWaitlist(t) ==
    /\ pc[t] = "lock_waitlist"
    /\ mutex.waitlist_mutex = {}
    /\ mutex' = [mutex EXCEPT !.waitlist_mutex = {t}]
    /\ pc' = [pc EXCEPT ![t] = local[t].op]
    /\ UNCHANGED <<now, tables, history, last, local, calls>>

\* cancelBooking, lines 420-457: the checks, then the slot freed and the head
\* notified, or the queue rebuilt
cancelFree(t) ==
    /\ pc[t] = "cancelBooking"
    /\ LET bookingId == local[t].bookingId IN
       IF bookingId \notin DOMAIN bookings
       THEN ThreadThrow(t) /\ UNCHANGED <<tables, history>>
       ELSE IF \/ alreadyCanceled(bookings[bookingId])
               \/ hasStarted(conferences[bookings[bookingId].conferenceName])
       THEN ThreadThrow(t) /\ UNCHANGED <<tables, history>>
       ELSE LET confName == bookings[bookingId].conferenceName
                wasConfirmed == bookings[bookingId].status = "CONFIRMED"
            IN  /\ conferences' = IF wasConfirmed
                                  THEN [conferences EXCEPT ![confName] = increaseAvailableSlots(@)]
                                  ELSE conferences
                /\ bookings' = IF wasConfirmed
                               THEN ProcessWaitlistBookings(bookings, waitlists[confName])
                               ELSE bookings
                /\ notified' = IF wasConfirmed
                               THEN ProcessWaitlistNotified(waitlists[confName])
                               ELSE notified
                /\ waitlists' = IF wasConfirmed
                                THEN waitlists
                                ELSE [waitlists EXCEPT ![confName] = RemoveFromQueue(@, bookingId)]
                /\ pc' = [pc EXCEPT ![t] = "cancel_commit"]
                /\ UNCHANGED <<users, created, requeued, idReuses, local, mutex>>
    /\ UNCHANGED <<now, last, calls>>

\* cancelBooking, lines 459-462: the status set, the ledger entry removed
cancelCommit(t) ==
    /\ pc[t] = "cancel_commit"
    /\ bookings' = [bookings EXCEPT ![local[t].bookingId].status = "CANCELED"]
    /\ users' = [users EXCEPT ![bookings[local[t].bookingId].userId] =
                    removeBooking(@, local[t].bookingId)]
    /\ ThreadReturn(t, "true", local[t].bookingId)
    /\ UNCHANGED <<now, conferences, waitlists, history, last, calls>>

\* confirmWaitlistedBooking, lines 608-669: every path but the last part of the
\* successful one, which has taken its slot when this step ends
confirmCheck(t) ==
    /\ pc[t] = "confirmWaitlistedBooking"
    /\ LET bookingId == local[t].bookingId IN
       IF bookingId \notin DOMAIN bookings
       THEN ThreadThrow(t) /\ UNCHANGED <<tables, history>>
       ELSE IF bookings[bookingId].status # "WAITLISTED"
       THEN ThreadThrow(t) /\ UNCHANGED <<tables, history>>
       ELSE
         LET booking == bookings[bookingId]
             confName == booking.conferenceName
             conference == conferences[confName]
         IN
         IF hasStarted(conference)
         THEN /\ bookings' = CancelAllBookings(bookings, waitlists[confName])
              /\ waitlists' = [waitlists EXCEPT ![confName] = <<>>]
              /\ ThreadThrow(t)
              /\ UNCHANGED <<conferences, users, history>>
         ELSE IF deadlinePassed(booking)
         THEN LET queue == MoveToEnd(waitlists[confName], bookingId) IN
              /\ waitlists' = [waitlists EXCEPT ![confName] = queue]
              /\ bookings' = IF hasSlotAvailable(conference)
                             THEN ProcessWaitlistBookings(bookings, queue)
                             ELSE bookings
              /\ notified' = IF hasSlotAvailable(conference)
                             THEN ProcessWaitlistNotified(queue)
                             ELSE notified
              /\ requeued' = TRUE
              /\ ThreadReturn(t, "false", bookingId)
              /\ UNCHANGED <<conferences, users, created, idReuses>>
         ELSE IF \/ hasConflictingBooking(booking.userId, conference)
                 \/ ~canDecreaseAvailableSlots(conference)
         THEN ThreadThrow(t) /\ UNCHANGED <<tables, history>>
         ELSE /\ conferences' = [conferences EXCEPT ![confName] = decreaseAvailableSlots(@)]
              /\ pc' = [pc EXCEPT ![t] = "confirm_commit"]
              /\ UNCHANGED <<users, bookings, waitlists, history, local, mutex>>
    /\ UNCHANGED <<now, last, calls>>

\* confirmWaitlistedBooking, lines 671-690: the queue rebuilt, the status set,
\* the user's overlapping waitlist entries cancelled
confirmCommit(t) ==
    /\ pc[t] = "confirm_commit"
    /\ LET bookingId == local[t].bookingId
           userId == bookings[bookingId].userId
           confName == bookings[bookingId].conferenceName
           wl1 == [waitlists EXCEPT ![confName] = RemoveFromQueue(@, bookingId)]
           bk1 == [bookings EXCEPT ![bookingId].status = "CONFIRMED"]
       IN  /\ waitlists' = OverlapWaitlists(conferences, bk1, wl1, userId, confName)
           /\ bookings' = OverlapBookings(conferences, bk1, wl1, userId, confName)
           /\ ThreadReturn(t, "true", bookingId)
    /\ UNCHANGED <<now, conferences, users, history, last, calls>>

\* two threads calling on one full conference with one booking queued: the state
\* that addConference(B), addUser(u1), addUser(u2), bookConference(u1, B) and
\* bookConference(u2, B) at time 0 leave
Threads == 1..2
\* the ids the threads pass: those of the two bookings made before they start
ThreadIds == {<<"u1", "B", 0>>, <<"u2", "B", 0>>}

InitThreads ==
    /\ now = 0
    /\ conferences = [c \in {"B"} |->
                        decreaseAvailableSlots(NewConference(3 * GraceSeconds, 5 * GraceSeconds, 1))]
    /\ users = [u \in {"u1", "u2"} |->
                  IF u = "u1" THEN addBooking(<<>>, <<"u1", "B", 0>>, "CONFIRMED")
                  ELSE addBooking(<<>>, <<"u2", "B", 0>>, "WAITLISTED")]
    /\ \E garbage \in IndeterminateDeadlines :
          bookings = emplace(emplace(<<>>, <<"u1", "B", 0>>,
                                     NewBooking("u1", "B", "CONFIRMED", UnreadDeadline)),
                             <<"u2", "B", 0>>, NewBooking("u2", "B", "WAITLISTED", garbage))
    /\ waitlists = [c \in ConfNames |-> IF c = "B" THEN << <<"u2", "B", 0>> >> ELSE <<>>]
    /\ notified = {}
    /\ created = 0
    /\ requeued = FALSE
    /\ idReuses = 0
    /\ last = [thrown |-> FALSE, value |-> "id", id |-> <<"u2", "B", 0>>]
    /\ pc = [t \in Threads |-> "idle"]
    /\ local = [t \in Threads |-> Idle]
    /\ mutex = [conference_mutex |-> {}, booking_mutex |-> {}, waitlist_mutex |-> {}]
    /\ calls = [t \in Threads |-> 0]
NextThreads ==
    \/ \E t \in Threads, u \in {"u1", "u2"} : bookCheck(t, u, "B", MaxCalls)
    \/ \E t \in Threads : bookSlot(t)
    \/ \E t \in Threads : bookDecrement(t)
    \/ \E t \in Threads : bookEnqueue(t)
    \/ \E t \in Threads : bookEmplace(t)
    \/ \E t \in Threads, id \in ThreadIds : statusRead(t, id, MaxCalls)
    \/ \E t \in Threads, id \in ThreadIds : lockedCall(t, "cancelBooking", id, MaxCalls)
    \/ \E t \in Threads, id \in ThreadIds : lockedCall(t, "confirmWaitlistedBooking", id, MaxCalls)
    \/ \E t \in Threads : lockConference(t)
    \/ \E t \in Threads : lockBooking(t)
    \/ \E t \in Threads : lockWaitlist(t)
    \/ \E t \in Threads : cancelFree(t)
    \/ \E t \in Threads : cancelCommit(t)
    \/ \E t \in Threads : confirmCheck(t)
    \/ \E t \in Threads : confirmCommit(t)
SpecThreads == InitThreads /\ [][NextThreads]_vars

\* test_concurrent_booking: one conference of TestSlots slots an hour ahead,
\* five users, a thread for each calling bookConference once
TestUsers == <<"user1", "user2", "user3", "user4", "user5">>
TestConf == "Concurrent Test Conf"

InitTest ==
    /\ now = 0
    /\ conferences = [c \in {TestConf} |->
                        NewConference(3600, 7200, TestSlots)]
    /\ users = [u \in {TestUsers[i] : i \in DOMAIN TestUsers} |-> <<>>]
    /\ bookings = <<>>
    /\ waitlists = [c \in {TestConf} |-> <<>>]
    /\ notified = {}
    /\ created = 0
    /\ requeued = FALSE
    /\ idReuses = 0
    /\ last = Returned("void")
    /\ pc = [t \in DOMAIN TestUsers |-> "idle"]
    /\ local = [t \in DOMAIN TestUsers |-> Idle]
    /\ mutex = [conference_mutex |-> {}, booking_mutex |-> {}, waitlist_mutex |-> {}]
    /\ calls = [t \in DOMAIN TestUsers |-> 0]
NextTest ==
    \/ \E t \in DOMAIN TestUsers : bookCheck(t, TestUsers[t], TestConf, 1)
    \/ \E t \in DOMAIN TestUsers : bookSlot(t)
    \/ \E t \in DOMAIN TestUsers : bookDecrement(t)
    \/ \E t \in DOMAIN TestUsers : bookEnqueue(t)
    \/ \E t \in DOMAIN TestUsers : bookEmplace(t)
SpecTest == InitTest /\ [][NextTest]_vars

\* ------------------------------------------------------------------ claims
ConfirmedFor(c) ==
    {id \in DOMAIN bookings :
        bookings[id].conferenceName = c /\ bookings[id].status = "CONFIRMED"}

Overlapping(c1, c2) ==
    isTimeOverlapping(conferences[c1], conferences[c2].startTime, conferences[c2].endTime)

InQueue(queue, id) == \E i \in 1..Len(queue) : queue[i] = id

\* C1: as long as every bookConference call built a fresh id, every conference
\* has 0 <= availableSlots <= totalSlots and as many CONFIRMED bookings in the
\* table as totalSlots - availableSlots
C1_Capacity ==
    idReuses = 0 =>
        \A c \in DOMAIN conferences :
            /\ 0 <= conferences[c].availableSlots
            /\ conferences[c].availableSlots <= conferences[c].totalSlots
            /\ Cardinality(ConfirmedFor(c)) =
                   conferences[c].totalSlots - conferences[c].availableSlots

\* a full conference whose slot went from a cancelled booking to a promoted one
C1_Witness ==
    /\ idReuses = 0
    /\ \E c \in DOMAIN conferences :
          /\ conferences[c].availableSlots = 0
          /\ \E id \in DOMAIN bookings :
                bookings[id].conferenceName = c /\ bookings[id].status = "CANCELED"
          /\ \E id \in ConfirmedFor(c) : id \in notified

\* C2: no user holds two CONFIRMED bookings whose conferences overlap in time
C2_NoDoubleBooking ==
    \A id1 \in DOMAIN bookings, id2 \in DOMAIN bookings :
        ( /\ id1 # id2
          /\ bookings[id1].userId = bookings[id2].userId
          /\ bookings[id1].status = "CONFIRMED"
          /\ bookings[id2].status = "CONFIRMED" )
        => ~Overlapping(bookings[id1].conferenceName, bookings[id2].conferenceName)

\* a call has just been refused in a state where a user confirmed in one
\* conference has no booking for an overlapping one that is open and has a free
\* slot: bookConference for it is refused for the conflict alone
C2_Witness ==
    /\ last.thrown
    /\ \E id \in DOMAIN bookings, c \in DOMAIN conferences :
          /\ bookings[id].status = "CONFIRMED"
          /\ id \in getActiveBookings(users[bookings[id].userId])
          /\ c # bookings[id].conferenceName
          /\ Overlapping(bookings[id].conferenceName, c)
          /\ ~hasStarted(conferences[c])
          /\ hasSlotAvailable(conferences[c])
          /\ \A id2 \in DOMAIN bookings :
                ~(bookings[id2].userId = bookings[id].userId /\ bookings[id2].conferenceName = c)
          /\ ENABLED (bookConference(bookings[id].userId, c) /\ last'.thrown)

\* C5: a bookConference, cancelBooking, confirmWaitlistedBooking or
\* getBookingStatus call that throws leaves the slot counters, the booking
\* table, the ledgers and the waitlists as they were
C5_FailureAtomicity ==
    [][( /\ last'.thrown
         /\ \/ \E u \in DOMAIN users, c \in DOMAIN conferences : bookConference(u, c)
            \/ \E id \in KnownIds : cancelBooking(id)
            \/ \E id \in KnownIds : confirmWaitlistedBooking(id)
            \/ \E id \in KnownIds : getBookingStatus(id) )
       => UNCHANGED tables]_vars

\* C6: as long as no confirmWaitlistedBooking call took the deadline-expired
\* path, a booking that confirmWaitlistedBooking promotes was at the head of its
\* conference's queue
C6_WaitlistFifo ==
    [][\A b \in DOMAIN bookings :
          ( /\ ~requeued'
            /\ bookings[b].status = "WAITLISTED"
            /\ confirmWaitlistedBooking(b)
            /\ last' = Returned("true") )
          => Head(waitlists[bookings[b].conferenceName]) = b]_vars

\* C7 as claimed: cancelling a CONFIRMED booking of a conference whose waitlist
\* is not empty leaves the head WAITLISTED with deadline now + 1 hour and frees
\* one slot; and confirmWaitlistedBooking on a head whose deadline the trigger set
\* and has not passed, of a conference not started, for a user with no
\* overlapping CONFIRMED booking, returns true, confirms it, takes one slot and
\* removes it from the queue
C7_HeadPromotion_Claimed ==
    [][\A b \in DOMAIN bookings :
          LET c == bookings[b].conferenceName
              queue == waitlists[c]
          IN  /\ ( /\ bookings[b].status = "CONFIRMED"
                   /\ queue # <<>>
                   /\ cancelBooking(b)
                   /\ ~last'.thrown )
                 => /\ bookings'[Head(queue)].status = "WAITLISTED"
                    /\ bookings'[Head(queue)].confirmationDeadline = now + GraceSeconds
                    /\ conferences'[c].availableSlots = conferences[c].availableSlots + 1
              /\ ( /\ queue # <<>>
                   /\ Head(queue) = b
                   /\ b \in notified
                   /\ ~deadlinePassed(bookings[b])
                   /\ ~hasStarted(conferences[c])
                   /\ ~hasConflictingBooking(bookings[b].userId, conferences[c])
                   /\ confirmWaitlistedBooking(b) )
                 => /\ last' = Returned("true")
                    /\ bookings'[b].status = "CONFIRMED"
                    /\ conferences'[c].availableSlots = conferences[c].availableSlots - 1
                    /\ ~InQueue(waitlists'[c], b)]_vars

\* C7 as amended: the cancellation leaves the head's status as it was, sets its
\* deadline to now + 1 hour and frees one slot; the confirmation succeeds as
\* claimed when, besides, the head is WAITLISTED in the booking table and the
\* conference has a slot available
C7_HeadPromotion ==
    [][\A b \in DOMAIN bookings :
          LET c == bookings[b].conferenceName
              queue == waitlists[c]
          IN  /\ ( /\ bookings[b].status = "CONFIRMED"
                   /\ queue # <<>>
                   /\ cancelBooking(b)
                   /\ ~last'.thrown )
                 => /\ bookings'[Head(queue)].status = bookings[Head(queue)].status
                    /\ bookings'[Head(queue)].confirmationDeadline = now + GraceSeconds
                    /\ conferences'[c].availableSlots = conferences[c].availableSlots + 1
              /\ ( /\ queue # <<>>
                   /\ Head(queue) = b
                   /\ bookings[b].status = "WAITLISTED"
                   /\ b \in notified
                   /\ ~deadlinePassed(bookings[b])
                   /\ ~hasStarted(conferences[c])
                   /\ hasSlotAvailable(conferences[c])
                   /\ ~hasConflictingBooking(bookings[b].userId, conferences[c])
                   /\ confirmWaitlistedBooking(b) )
                 => /\ last' = Returned("true")
                    /\ bookings'[b].status = "CONFIRMED"
                    /\ conferences'[c].availableSlots = conferences[c].availableSlots - 1
                    /\ ~InQueue(waitlists'[c], b)]_vars

\* a booking the trigger notified has just been promoted into the slot a
\* cancelled booking freed, within its grace window
C7_Witness ==
    /\ last = Returned("true")
    /\ \E b \in DOMAIN bookings :
          /\ b \in notified
          /\ bookings[b].status = "CONFIRMED"
          /\ now <= bookings[b].confirmationDeadline
          /\ conferences[bookings[b].conferenceName].availableSlots = 0
          /\ waitlists[bookings[b].conferenceName] = <<>>
          /\ \E a \in DOMAIN bookings :
                /\ bookings[a].conferenceName = bookings[b].conferenceName
                /\ bookings[a].status = "CANCELED"

\* C8: confirmWaitlistedBooking on a WAITLISTED booking of a conference not
\* started whose deadline has passed returns false, throws nothing, leaves the
\* booking WAITLISTED and last in its queue, the other ids in their order and
\* every slot counter as it was
C8_ExpiryRequeues ==
    [][\A b \in DOMAIN bookings :
          LET c == bookings[b].conferenceName IN
          ( /\ bookings[b].status = "WAITLISTED"
            /\ ~hasStarted(conferences[c])
            /\ deadlinePassed(bookings[b])
            /\ confirmWaitlistedBooking(b) )
          => /\ last' = Returned("false")
             /\ bookings'[b].status = "WAITLISTED"
             /\ waitlists'[c] # <<>>
             /\ waitlists'[c][Len(waitlists'[c])] = b
             /\ RemoveFromQueue(waitlists'[c], b) = RemoveFromQueue(waitlists[c], b)
             /\ conferences' = conferences]_vars

\* a call has just returned false and its booking stands behind another one
C8_Witness ==
    /\ last = Returned("false")
    /\ \E c \in DOMAIN conferences :
          /\ Len(waitlists[c]) >= 2
          /\ waitlists[c][1] # waitlists[c][Len(waitlists[c])]
          /\ bookings[waitlists[c][Len(waitlists[c])]].status = "WAITLISTED"
          /\ deadlinePassed(bookings[waitlists[c][Len(waitlists[c])]])
          /\ ~hasStarted(conferences[c])

\* C9: a booking of the table stays in it, and its status changes only from
\* CONFIRMED to CANCELED, from WAITLISTED to CONFIRMED or from WAITLISTED to
\* CANCELED: CANCELED is kept for good, CONFIRMED never becomes WAITLISTED
C9_StatusTransitions ==
    [][\A id \in DOMAIN bookings :
          /\ id \in DOMAIN bookings'
          /\ \/ bookings'[id].status = bookings[id].status
             \/ <<bookings[id].status, bookings'[id].status>> \in
                   { <<"CONFIRMED", "CANCELED">>,
                     <<"WAITLISTED", "CONFIRMED">>,
                     <<"WAITLISTED", "CANCELED">> }]_vars

\* a booking is still CANCELED after bookConference built its id again and
\* entered it in the ledger as active
C9_Witness ==
    /\ idReuses > 0
    /\ \E id \in DOMAIN bookings :
          /\ bookings[id].status = "CANCELED"
          /\ id \in getActiveBookings(users[bookings[id].userId])

\* C10: every id in a conference's queue is a WAITLISTED booking of that
\* conference, no id is queued twice, and every WAITLISTED booking is queued
C10_QueueInvariant ==
    /\ \A c \in DOMAIN waitlists : \A i \in 1..Len(waitlists[c]) :
          /\ waitlists[c][i] \in DOMAIN bookings
          /\ bookings[waitlists[c][i]].status = "WAITLISTED"
          /\ bookings[waitlists[c][i]].conferenceName = c
    /\ \A c1 \in DOMAIN waitlists, c2 \in DOMAIN waitlists :
          \A i \in 1..Len(waitlists[c1]), j \in 1..Len(waitlists[c2]) :
             waitlists[c1][i] = waitlists[c2][j] => (c1 = c2 /\ i = j)
    /\ \A id \in DOMAIN bookings :
          bookings[id].status = "WAITLISTED"
             => InQueue(waitlists[bookings[id].conferenceName], id)

\* the threads standing between the first and the last table access of a
\* bookConference, cancelBooking or confirmWaitlistedBooking call
InFlight ==
    {t \in DOMAIN pc :
        pc[t] \in {"book_slot", "book_decrement", "book_enqueue", "book_emplace",
                   "cancel_commit", "confirm_commit"}}

\* C3: no mutating call reads or writes the tables between the first and the
\* last table access of another one: at most one thread stands inside such a call
C3_MutualExclusion == Cardinality(InFlight) <= 1

\* the bookings the calls of the test returned that have the given status
TestCount(status) ==
    Cardinality({t \in DOMAIN pc :
                    /\ local[t].bookingId \in DOMAIN bookings
                    /\ bookings[local[t].bookingId].status = status})

\* C4: availableSlots is never negative, and once the N concurrent calls for a
\* conference of k slots have returned, min(N, k) of the bookings are CONFIRMED
\* and the other N - min(N, k) are WAITLISTED
C4_ConcurrentCapacity ==
    /\ \A c \in DOMAIN conferences : conferences[c].availableSlots >= 0
    /\ (\A t \in DOMAIN pc : pc[t] = "idle" /\ calls[t] = 1)
          => LET N == Cardinality(DOMAIN pc)
                 k == conferences[TestConf].totalSlots
                 m == IF N < k THEN N ELSE k
             IN  /\ TestCount("CONFIRMED") = m
                 /\ TestCount("WAITLISTED") = N - m

\* C11: every ledger entry names a booking of that user in the booking table
\* whose status is the one the ledger stores; stated for the runs in which
\* every bookConference call built a fresh id
C11_LedgerConsistency ==
    idReuses = 0 =>
        \A u \in DOMAIN users : \A id \in DOMAIN users[u] :
            /\ id \in DOMAIN bookings
            /\ bookings[id].userId = u
            /\ bookings[id].status = users[u][id]

\* C12: a bookConference call that returns hands out an id that was not in the
\* booking table, and the table then maps it to the booking just created, of
\* that user and conference, CONFIRMED or WAITLISTED
C12_UniqueIds ==
    [][\A u \in DOMAIN users, c \in DOMAIN conferences :
          (bookConference(u, c) /\ ~last'.thrown)
          => /\ last'.id \notin DOMAIN bookings
             /\ last'.id \in DOMAIN bookings'
             /\ bookings'[last'.id].userId = u
             /\ bookings'[last'.id].conferenceName = c
             /\ bookings'[last'.id].status \in {"CONFIRMED", "WAITLISTED"}]_vars

\* ----------------------------------------------------------------- overlap
\* three users, the overlapping conferences A and B and a later conference D,
\* from the state that the three addConference calls, the three addUser calls
\* and bookConference(u1, A), (u1, D), (u3, A), (u2, A), (u2, D) at time 0
\* leave: A and D full, u3 and u2 queued for A, u2 queued for D, B free
SeedConfirmed == {<<"u1", "A", 0>>, <<"u1", "D", 0>>}
SeedWaitlisted == {<<"u3", "A", 0>>, <<"u2", "A", 0>>, <<"u2", "D", 0>>}

InitOverlap ==
    /\ now = 0
    /\ conferences =
          [c \in {"A", "B", "D"} |->
              IF c = "A" THEN decreaseAvailableSlots(NewConference(2 * GraceSeconds, 4 * GraceSeconds, 1))
              ELSE IF c = "B" THEN NewConference(3 * GraceSeconds, 5 * GraceSeconds, 1)
              ELSE decreaseAvailableSlots(NewConference(6 * GraceSeconds, 8 * GraceSeconds, 1))]
    /\ users =
          [u \in {"u1", "u2", "u3"} |->
              [id \in {x \in SeedConfirmed \cup SeedWaitlisted : x[1] = u} |->
                  IF id \in SeedConfirmed THEN "CONFIRMED" ELSE "WAITLISTED"]]
    /\ \E garbage \in [SeedWaitlisted -> IndeterminateDeadlines] :
          bookings =
             [id \in SeedConfirmed \cup SeedWaitlisted |->
                 IF id \in SeedConfirmed
                 THEN NewBooking(id[1], id[2], "CONFIRMED", UnreadDeadline)
                 ELSE NewBooking(id[1], id[2], "WAITLISTED", garbage[id])]
    /\ waitlists =
          [c \in {"A", "B", "D"} |->
              IF c = "A" THEN << <<"u3", "A", 0>>, <<"u2", "A", 0>> >>
              ELSE IF c = "D" THEN << <<"u2", "D", 0>> >>
              ELSE <<>>]
    /\ notified = {}
    /\ created = 0
    /\ requeued = FALSE
    /\ idReuses = 0
    /\ last = [thrown |-> FALSE, value |-> "id", id |-> <<"u2", "D", 0>>]
    /\ NoThreads
NextOverlap == Booking({"u2", "u3"}, {"B"})
SpecOverlap == InitOverlap /\ [][NextOverlap]_vars

\* what C13 asks of a step in which user u obtained a CONFIRMED booking for c
Evicted(u, c) ==
    \A c2 \in DOMAIN conferences \ {c} :
       IF Overlapping(c, c2)
       THEN /\ \A id \in DOMAIN bookings :
                  ( /\ bookings[id].userId = u
                    /\ bookings[id].conferenceName = c2
                    /\ bookings[id].status = "WAITLISTED" )
                  => /\ bookings'[id].status = "CANCELED"
                     /\ ~InQueue(waitlists'[c2], id)
            /\ waitlists'[c2] = SelectSeq(waitlists[c2], LAMBDA x : bookings[x].userId # u)
            /\ \A i \in 1..Len(waitlists[c2]) :
                  bookings[waitlists[c2][i]].userId # u
                     => bookings'[waitlists[c2][i]].status = bookings[waitlists[c2][i]].status
       ELSE waitlists'[c2] = waitlists[c2]

\* C13: when bookConference takes a slot for u in c, or confirmWaitlistedBooking
\* returns true for a booking of u in c, every WAITLISTED booking of u for
\* another conference overlapping c becomes CANCELED and leaves that queue, the
\* other users' ids there keep their status and order, and the queues of the
\* conferences that do not overlap c stay as they are
C13_OverlapEviction ==
    [][/\ \A u \in DOMAIN users, c \in DOMAIN conferences :
             ( /\ ~last'.thrown
               /\ last'.id = BookingId(u, c)
               /\ hasSlotAvailable(conferences[c])
               /\ bookConference(u, c) )
             => Evicted(u, c)
       /\ \A b \in DOMAIN bookings :
             ( /\ last' = Returned("true")
               /\ bookings[b].status = "WAITLISTED"
               /\ confirmWaitlistedBooking(b) )
             => Evicted(bookings[b].userId, bookings[b].conferenceName)]_vars

\* u was confirmed in c with fresh ids only, its booking queued for an
\* overlapping conference not yet started is CANCELED and out of the queue
\* where another user still waits, and its booking queued for a conference
\* that does not overlap c still waits there
C13_Witness ==
    /\ idReuses = 0
    /\ \E b \in DOMAIN bookings, e \in DOMAIN bookings, k \in DOMAIN bookings :
          /\ bookings[b].status = "CONFIRMED"
          /\ bookings[e].userId = bookings[b].userId
          /\ bookings[k].userId = bookings[b].userId
          /\ bookings[e].conferenceName # bookings[b].conferenceName
          /\ Overlapping(bookings[b].conferenceName, bookings[e].conferenceName)
          /\ ~hasStarted(conferences[bookings[e].conferenceName])
          /\ bookings[e].status = "CANCELED"
          /\ e \in getActiveBookings(users[bookings[e].userId])
          /\ ~InQueue(waitlists[bookings[e].conferenceName], e)
          /\ waitlists[bookings[e].conferenceName] # <<>>
          /\ ~Overlapping(bookings[b].conferenceName, bookings[k].conferenceName)
          /\ bookings[k].status = "WAITLISTED"
          /\ InQueue(waitlists[bookings[k].conferenceName], k)

\* the bookings of user u for conference c that are not CANCELED
ActiveFor(u, c) ==
    {id \in DOMAIN bookings :
        /\ bookings[id].userId = u
        /\ bookings[id].conferenceName = c
        /\ bookings[id].status # "CANCELED"}

C15_CancelNotIdempotent ==
    [][\A id \in DOMAIN bookings :
          (bookings[id].status = "CANCELED" /\ cancelBooking(id))
          => (last'.thrown /\ UNCHANGED tables)]_vars

\* cancelBooking has just been refused for a booking that the bulk cancellation
\* of its started conference cancelled, and for one that cancelBooking cancelled
C15_Witness ==
    /\ last.thrown
    /\ \E id \in DOMAIN bookings :
          /\ bookings[id].status = "CANCELED"
          /\ id \in getActiveBookings(users[bookings[id].userId])
          /\ hasStarted(conferences[bookings[id].conferenceName])
          /\ ENABLED (cancelBooking(id) /\ last'.thrown)
    /\ \E id \in DOMAIN bookings :
          /\ bookings[id].status = "CANCELED"
          /\ id \notin DOMAIN users[bookings[id].userId]
          /\ ENABLED (cancelBooking(id) /\ last'.thrown)

\* C16: getBookingStatus writes no table, and a call that reads booking id
\* while a confirmWaitlistedBooking(id) call stands between taking its slot and
\* setting the status reads either what held before that call (WAITLISTED, the
\* slot not yet taken) or what holds after it (CONFIRMED)
C16_NoIntermediateRead ==
    [][\A t \in DOMAIN pc, id \in DOMAIN bookings :
          statusRead(t, id, MaxCalls)
          => /\ UNCHANGED tables
             /\ \A o \in DOMAIN pc :
                   (pc[o] = "confirm_commit" /\ local[o].bookingId = id)
                   => \/ local'[t].result = "CONFIRMED"
                      \/ /\ local'[t].result = "WAITLISTED"
                         /\ local'[t].seen =
                               conferences[bookings[id].conferenceName].availableSlots + 1]_vars

\* ----------------------------------------------------------------- trigger
\* processWaitlist is private: cancelBooking and confirmWaitlistedBooking call
\* it. Here it is a step of its own, taken in any state the three users
\* queueing for B can reach, so that what it does is seen apart from its callers
processWaitlist(conferenceName) ==
    /\ bookings' = ProcessWaitlistBookings(bookings, waitlists[conferenceName])
    /\ notified' = ProcessWaitlistNotified(waitlists[conferenceName])
    /\ last' = Returned("void")
    /\ UNCHANGED <<now, conferences, users, waitlists, created, requeued, idReuses, threadVars>>

NextTrigger ==
    \/ Booking({"u2", "u3"}, {"B"})
    \/ Tick
    \/ \E c \in {"B"} : processWaitlist(c)
SpecTrigger == InitQueue /\ [][NextTrigger]_vars

\* C17: processWaitlist(c) on a queue that is not empty sets the deadline of the
\* booking at its head to now + 3600 and changes no status, no slot counter, no
\* queue, no ledger and no other deadline; on an empty queue it changes no table
C17_TriggerFrame ==
    [][\A c \in DOMAIN conferences :
          processWaitlist(c)
          => /\ conferences' = conferences
             /\ waitlists' = waitlists
             /\ users' = users
             /\ DOMAIN bookings' = DOMAIN bookings
             /\ \A id \in DOMAIN bookings :
                   IF waitlists[c] # <<>> /\ id = Head(waitlists[c])
                   THEN bookings'[id] =
                           [bookings[id] EXCEPT !.confirmationDeadline = now + GraceSeconds]
                   ELSE bookings'[id] = bookings[id]]_vars

\* the head of a queue of two was notified after the clock had advanced: its
\* deadline is an hour from then, the booking behind it keeps the value it had
C17_Witness ==
    /\ last = Returned("void")
    /\ now > 0
    /\ \E c \in DOMAIN conferences :
          /\ Len(waitlists[c]) >= 2
          /\ Head(waitlists[c]) \in notified
          /\ bookings[Head(waitlists[c])].status = "WAITLISTED"
          /\ bookings[Head(waitlists[c])].confirmationDeadline = now + GraceSeconds
          /\ waitlists[c][2] \notin notified
          /\ bookings[waitlists[c][2]].confirmationDeadline \in IndeterminateDeadlines
          /\ ~hasSlotAvailable(conferences[c])

\* ------------------------------------------------------------------- start
\* the bookings of SpecOverlap cancelled and confirmed with the clock running:
\* A, for which u3 and u2 queue, starts first
NextStarted ==
    \/ \E id \in KnownIds : cancelBooking(id)
    \/ \E id \in KnownIds : confirmWaitlistedBooking(id)
    \/ Tick
SpecStarted == InitOverlap /\ [][NextStarted]_vars

\* C18: confirmWaitlistedBooking on a WAITLISTED booking of a conference that
\* has started throws, leaves every id of that conference's queue CANCELED in
\* the table, the booking itself among them, and the queue empty, and changes
\* no slot counter and no CONFIRMED booking
C18_ConfirmAfterStart ==
    [][\A b \in DOMAIN bookings :
          LET c == bookings[b].conferenceName IN
          ( /\ bookings[b].status = "WAITLISTED"
            /\ hasStarted(conferences[c])
            /\ confirmWaitlistedBooking(b) )
          => /\ last'.thrown
             /\ \A i \in 1..Len(waitlists[c]) : bookings'[waitlists[c][i]].status = "CANCELED"
             /\ bookings'[b].status = "CANCELED"
             /\ waitlists'[c] = <<>>
             /\ conferences' = conferences
             /\ \A id \in DOMAIN bookings :
                   bookings[id].status = "CONFIRMED" => bookings'[id] = bookings[id]]_vars

\* a call has just thrown, and a started conference with a CONFIRMED booking
\* has an empty queue and two bookings that the ledgers still show WAITLISTED
\* and the table shows CANCELED
C18_Witness ==
    /\ last.thrown
    /\ idReuses = 0
    /\ \E c \in DOMAIN conferences :
          /\ hasStarted(conferences[c])
          /\ waitlists[c] = <<>>
          /\ ConfirmedFor(c) # {}
          /\ \E id1 \in DOMAIN bookings, id2 \in DOMAIN bookings :
                /\ id1 # id2
                /\ \A id \in {id1, id2} :
                      /\ bookings[id].conferenceName = c
                      /\ bookings[id].status = "CANCELED"
                      /\ id \in DOMAIN users[bookings[id].userId]
                      /\ users[bookings[id].userId][id] = "WAITLISTED"

\* C19: when confirmWaitlistedBooking(b) takes the deadline-expired path and the
\* conference has a free slot, the booking at the head of the rebuilt queue, b
\* itself if it queued alone, gets the deadline now + 1 hour; when the
\* conference has no free slot, no deadline changes
C19_ExpiryCascade ==
    [][\A b \in DOMAIN bookings :
          LET c == bookings[b].conferenceName IN
          ( /\ bookings[b].status = "WAITLISTED"
            /\ ~hasStarted(conferences[c])
            /\ deadlinePassed(bookings[b])
            /\ confirmWaitlistedBooking(b) )
          => IF conferences[c].availableSlots > 0
             THEN /\ waitlists'[c] # <<>>
                  /\ bookings'[Head(waitlists'[c])].confirmationDeadline = now + GraceSeconds
                  /\ Len(waitlists[c]) = 1 => Head(waitlists'[c]) = b
                  /\ (Len(waitlists[c]) > 1 /\ Head(waitlists[c]) = b)
                        => Head(waitlists'[c]) = waitlists[c][2]
             ELSE \A id \in DOMAIN bookings :
                     bookings'[id].confirmationDeadline = bookings[id].confirmationDeadline]_vars

\* a call has just returned false for the former head of a conference with a
\* free slot: it stands last with its deadline passed, and the booking now at
\* the head has an hour from now
C19_Witness ==
    /\ last = Returned("false")
    /\ requeued
    /\ \E c \in DOMAIN conferences :
          /\ conferences[c].availableSlots > 0
          /\ Len(waitlists[c]) >= 2
          /\ bookings[Head(waitlists[c])].status = "WAITLISTED"
          /\ bookings[Head(waitlists[c])].confirmationDeadline = now + GraceSeconds
          /\ waitlists[c][Len(waitlists[c])] \in notified
          /\ deadlinePassed(bookings[waitlists[c][Len(waitlists[c])]])

\* C20: cancelBooking on a WAITLISTED booking b of a conference not started
\* returns true, takes b out of that conference's queue with the other ids in
\* their order, sets b CANCELED, removes b from its user's ledger, and changes
\* no slot counter, no other booking, no other queue and no other ledger
C20_CancelWaitlisted ==
    [][\A b \in DOMAIN bookings :
          LET c == bookings[b].conferenceName
              u == bookings[b].userId
          IN
          ( /\ bookings[b].status = "WAITLISTED"
            /\ ~hasStarted(conferences[c])
            /\ cancelBooking(b) )
          => /\ last' = Returned("true")
             /\ waitlists'[c] = SelectSeq(waitlists[c], LAMBDA x : x # b)
             /\ \A c2 \in DOMAIN waitlists \ {c} : waitlists'[c2] = waitlists[c2]
             /\ bookings'[b] = [bookings[b] EXCEPT !.status = "CANCELED"]
             /\ \A id \in DOMAIN bookings \ {b} : bookings'[id] = bookings[id]
             /\ DOMAIN users'[u] = DOMAIN users[u] \ {b}
             /\ \A id \in DOMAIN users'[u] : users'[u][id] = users[u][id]
             /\ \A u2 \in DOMAIN users \ {u} : users'[u2] = users[u2]
             /\ conferences' = conferences]_vars

\* cancelBooking has just returned for a booking that queued behind another
\* user's: it is CANCELED and in no ledger, the other still waits at the head,
\* and the same user still waits in the queue of another conference
C20_Witness ==
    /\ last = Returned("true")
    /\ idReuses = 0
    /\ \E b \in DOMAIN bookings, k \in DOMAIN bookings :
          /\ bookings[b].status = "CANCELED"
          /\ b \notin DOMAIN users[bookings[b].userId]
          /\ b \notin notified
          /\ conferences[bookings[b].conferenceName].availableSlots = 0
          /\ ~hasStarted(conferences[bookings[b].conferenceName])
          /\ Len(waitlists[bookings[b].conferenceName]) = 1
          /\ bookings[Head(waitlists[bookings[b].conferenceName])].status = "WAITLISTED"
          /\ bookings[k].userId = bookings[b].userId
          /\ bookings[k].conferenceName # bookings[b].conferenceName
          /\ bookings[k].status = "WAITLISTED"
          /\ InQueue(waitlists[bookings[k].conferenceName], k)

\* ----------------------------------------------------------------- overlap
\* Conference::isTimeOverlapping on its own: two conferences that the
\* constructor accepts (start < end, at most 12 hours), with every start and
\* end among the hours 0..MaxHour, and the method called on either with the
\* window of either
Windows ==
    {w \in (0..MaxHour) \X (0..MaxHour) :
        /\ w[1] < w[2]
        /\ (w[2] - w[1]) * GraceSeconds <= MaxDurationHours * 3600}

InitWindows ==
    /\ now = 0
    /\ conferences \in {[c \in ConfNames |->
                            NewConference(w[c][1] * GraceSeconds, w[c][2] * GraceSeconds, 1)] :
                        w \in [ConfNames -> Windows]}
    /\ users = <<>>
    /\ bookings = <<>>
    /\ waitlists = [c \in ConfNames |-> <<>>]
    /\ notified = {}
    /\ created = 0
    /\ requeued = FALSE
    /\ idReuses = 0
    /\ last = Returned("void")
    /\ NoThreads

callIsTimeOverlapping(self, other) ==
    /\ self \in DOMAIN conferences
    /\ other \in DOMAIN conferences
    /\ last' = Returned(IF isTimeOverlapping(conferences[self],
                                             conferences[other].startTime,
                                             conferences[other].endTime)
                        THEN "true" ELSE "false")
    /\ UNCHANGED <<now, conferences, users, bookings, waitlists, notified, created,
                   requeued, idReuses, threadVars>>

NextWindows == \E self \in ConfNames, other \in ConfNames : callIsTimeOverlapping(self, other)
SpecWindows == InitWindows /\ [][NextWindows]_vars

\* the seconds that lie in the half-open windows of both conferences
SharedSeconds(a, b) ==
    {t \in 0..(MaxHour * GraceSeconds) :
        /\ a.startTime <= t /\ t < a.endTime
        /\ b.startTime <= t /\ t < b.endTime}

\* C21: a.isTimeOverlapping(b.start, b.end) returns what b.isTimeOverlapping(
\* a.start, a.end) returns, returns false when one window ends where the other
\* starts, and returns true exactly when the half-open windows share a second
C21_OverlapSymmetry ==
    [][\A a \in ConfNames, b \in ConfNames :
          callIsTimeOverlapping(a, b)
          => LET A == conferences[a]
                 B == conferences[b]
             IN  /\ (last'.value = "true")
                    <=> isTimeOverlapping(B, A.startTime, A.endTime)
                 /\ (A.endTime = B.startTime \/ B.endTime = A.startTime)
                    => last'.value = "false"
                 /\ (last'.value = "true") <=> (SharedSeconds(A, B) # {})]_vars

\* the method has just answered false for two conferences of which one ends at
\* the second the other starts
C21_Witness ==
    /\ last = Returned("false")
    /\ \E a \in DOMAIN conferences, b \in DOMAIN conferences :
          conferences[a].endTime = conferences[b].startTime

\* C22: no user has, in the booking table, a CONFIRMED booking for one
\* conference and a WAITLISTED booking for another conference whose window
\* overlaps the first
C22_NoConfirmedWaitlistedOverlap ==
    \A x \in DOMAIN bookings, y \in DOMAIN bookings :
        ( /\ bookings[x].userId = bookings[y].userId
          /\ bookings[x].conferenceName # bookings[y].conferenceName
          /\ bookings[x].status = "CONFIRMED"
          /\ bookings[y].status = "WAITLISTED" )
        => ~Overlapping(bookings[x].conferenceName, bookings[y].conferenceName)

\* the bookings of SpecOverlap with u1, who holds A and D, and u3, who waits for
\* A, asking for B
NextConflict == Booking({"u1", "u3"}, {"B"})
SpecConflict == InitOverlap /\ [][NextConflict]_vars

\* a user whose booking for B was confirmed has lost the place in the queue of
\* the overlapping A, and a user with a CONFIRMED booking for A is refused the
\* waitlist of B, which is full and has not started
C22_Witness ==
    /\ \E x \in DOMAIN bookings, y \in DOMAIN bookings :
          /\ bookings[x].userId = bookings[y].userId
          /\ bookings[x].status = "CONFIRMED"
          /\ bookings[y].status = "CANCELED"
          /\ y \in DOMAIN users[bookings[y].userId]
          /\ bookings[x].conferenceName # bookings[y].conferenceName
          /\ Overlapping(bookings[x].conferenceName, bookings[y].conferenceName)
          /\ ~InQueue(waitlists[bookings[y].conferenceName], y)
    /\ \E x \in DOMAIN bookings, c \in DOMAIN conferences :
          /\ bookings[x].status = "CONFIRMED"
          /\ c # bookings[x].conferenceName
          /\ Overlapping(bookings[x].conferenceName, c)
          /\ ~hasSlotAvailable(conferences[c])
          /\ ~hasStarted(conferences[c])
          /\ ActiveFor(bookings[x].userId, c) = {}
          /\ last.thrown
          /\ ENABLED (bookConference(bookings[x].userId, c) /\ last'.thrown)

\* C23: as long as every bookConference call built a fresh id, the booking at
\* the head of the waitlist of a conference that has not started and has a free
\* slot has had its deadline set by processWaitlist
C23_FreeSlotNotifiedHead ==
    idReuses = 0
    => \A c \in DOMAIN conferences :
          ( /\ ~hasStarted(conferences[c])
            /\ conferences[c].availableSlots > 0
            /\ waitlists[c] # <<>> )
          => Head(waitlists[c]) \in notified

\* C24: as long as every bookConference call built a fresh id, a call of
\* confirmWaitlistedBooking on a WAITLISTED booking whose deadline processWaitlist
\* never set does not return true and does not leave the booking CONFIRMED
C24_NoPromotionUnnotified ==
    [][\A b \in DOMAIN bookings :
          ( /\ idReuses = 0
            /\ b \notin notified
            /\ bookings[b].status = "WAITLISTED"
            /\ confirmWaitlistedBooking(b) )
          => /\ last' # Returned("true")
             /\ bookings'[b].status # "CONFIRMED"]_vars

\* ---------------------------------------------------------------- fairness
\* the steps of a call of thread t that has begun: a thread that can run is run
\* in the end. Whether and when a thread makes its next call is left open.
Running(t) ==
    \/ bookSlot(t)
    \/ bookDecrement(t)
    \/ bookEnqueue(t)
    \/ bookEmplace(t)
    \/ lockConference(t)
    \/ lockBooking(t)
    \/ lockWaitlist(t)
    \/ cancelFree(t)
    \/ cancelCommit(t)
    \/ confirmCheck(t)
    \/ confirmCommit(t)

SpecThreadsFair == SpecThreads /\ \A t \in Threads : WF_vars(Running(t))

Holds(t) == {m \in DOMAIN mutex : t \in mutex[m]}

\* the mutexes a thread holds at each point of a locked call
LockOrder(t) ==
    CASE pc[t] = "lock_booking"  -> Holds(t) = {"conference_mutex"}
      [] pc[t] = "lock_waitlist" -> Holds(t) = {"conference_mutex", "booking_mutex"}
      [] pc[t] \in {"cancelBooking", "cancel_commit",
                    "confirmWaitlistedBooking", "confirm_commit"}
                                 -> Holds(t) = DOMAIN mutex
      [] OTHER                   -> Holds(t) = {}

\* C25: a thread takes conference_mutex, booking_mutex and waitlist_mutex in
\* that order and holds none of them once its call has returned or thrown; no
\* mutex has two holders; while a call is under way some thread can take a
\* step; and every call that has begun returns or throws in the end
C25_DeadlockFreedom ==
    /\ [](\A t \in Threads : LockOrder(t))
    /\ [](\A m \in DOMAIN mutex : Cardinality(mutex[m]) <= 1)
    /\ []((\E t \in Threads : pc[t] # "idle") => \E t \in Threads : ENABLED Running(t))
    /\ \A t \in Threads : (pc[t] # "idle") ~> (pc[t] = "idle")

\* one thread holds the three mutexes inside cancelBooking while the other, in
\* the last of its calls, waits for the first of them in
\* confirmWaitlistedBooking and cannot take a step
C25_Witness ==
    \E t \in Threads, w \in Threads :
        /\ pc[t] = "cancel_commit"
        /\ Holds(t) = DOMAIN mutex
        /\ pc[w] = "lock_conference"
        /\ local[w].op = "confirmWaitlistedBooking"
        /\ ~ENABLED Running(w)
        /\ calls[w] = MaxCalls

====
